---- MODULE Spec2Model ----
(***************************************************************************)
(* McKathlin Day-Night Cycle for RPG Maker MV (src/McKathlin_DayNight.js). *)
(*                                                                         *)
(* The plugin is single-threaded: every handler runs to completion, so     *)
(* each handler is one action.  What happens inside a handler (the order   *)
(* of its statements, the value of the guard flag at each statement, the   *)
(* outcome of each switch write) is recorded in the variable log, which    *)
(* holds the events of the most recent call.                               *)
(*                                                                         *)
(* JavaScript values that may be undefined are records [def, v]; a name    *)
(* the source reads but never assigns is looked up in the set of names     *)
(* the source does assign and yields Undefined.                            *)
(***************************************************************************)
EXTENDS Integers, Sequences, FiniteSets, TLC

VARIABLES
    Parameters,     \* PluginManager parameters, fixed at load
    totalMinutes,   \* $gameSystem.totalMinutes, the persisted time slot
    switching,      \* McKathlin.DayNightCycle._switching
    switches,       \* $gameSwitches data
    variables,      \* $gameVariables data
    log,            \* events of the most recent call, in program order
    err,            \* error the most recent call ended with, or "none"
    lastOp,         \* the most recent call
    answer          \* what the most recent call returned, when it is a query

vars == <<Parameters, totalMinutes, switching, switches, variables, log, err, lastOp,
          answer>>

-----------------------------------------------------------------------------
(* Bounds of the model *)

MaxTotalMinutes == 2160
NumSwitches == 2
NumVariables == 2
MaxTextLen == 3
MaxTimeTextLen == 5

-----------------------------------------------------------------------------
(* JavaScript values *)

Undefined == [def |-> FALSE, v |-> 0]
Num(n) == [def |-> TRUE, v |-> n]

\* x > n, x < n, x >= n with x possibly undefined: undefined converts to NaN
\* and every comparison with NaN is false.
JsGt(x, y) == x.def /\ y.def /\ x.v > y.v
JsLt(x, y) == x.def /\ y.def /\ x.v < y.v
JsGe(x, y) == x.def /\ y.def /\ x.v >= y.v

\* x || 0 on a number or undefined
OrZero(x) == IF x.def /\ x.v # 0 THEN x.v ELSE 0

\* truthiness of a flag that may be undefined
ToBoolean(x) == x.def /\ x.v # 0

\* a % b: the remainder takes the sign of the dividend
JsRem(a, b) == IF a >= 0 THEN a % b ELSE 0 - ((0 - a) % b)

\* Math.floor(a / b), b > 0
FloorDiv(a, b) == a \div b

-----------------------------------------------------------------------------
(* Names the source assigns on each namespace object *)

McKathlin == {"DayNight", "TimeSpan", "DayNightCycle"}

McKathlin_DayNight ==
    {"MINUTES_PER_HOUR", "HOURS_PER_DAY", "MINUTES_PER_DAY",
     "parseTimeOfDay", "parseTimeSpan", "parseTone", "parseToneList",
     "Parameters", "Param", "DataManager_setupNewGame",
     "Game_Switches_setValue", "Game_Party_increaseSteps"}

McKathlin_DayNightCycle ==
    {"_switching", "totalMinutes", "changeTimeTo", "updateTime", "now",
     "reset", "getToneByKeyword", "getOutsideTone"}

\* obj.name where the value only matters as defined / undefined
GetMember(obj, name) == IF name \in obj THEN Num(1) ELSE Undefined

-----------------------------------------------------------------------------
(* Constants *)

MINUTES_PER_HOUR == 60
HOURS_PER_DAY == 24
MINUTES_PER_DAY == MINUTES_PER_HOUR * HOURS_PER_DAY

\* clock values the model explores
TotalMinutesRange == (0 - MINUTES_PER_DAY)..MaxTotalMinutes

-----------------------------------------------------------------------------
(* TimeSpan *)

\* new McKathlin.TimeSpan(days, hours, minutes): its totalMinutes
TimeSpan_initialize(days, hours, minutes) ==
    OrZero(days) * MINUTES_PER_DAY + OrZero(hours) * MINUTES_PER_HOUR + OrZero(minutes)

getMinutes(t) == JsRem(t, MINUTES_PER_HOUR)
getHours_unwrapped(t) == FloorDiv(t, MINUTES_PER_HOUR)
getHours(t) == JsRem(FloorDiv(t, MINUTES_PER_HOUR), HOURS_PER_DAY)
getDays(t) == FloorDiv(t, MINUTES_PER_DAY)
getTotalHours(t) == FloorDiv(t, MINUTES_PER_HOUR)
getTotalMinutes(t) == t
getMinutesOfDay(t) == JsRem(t, MINUTES_PER_DAY)

-----------------------------------------------------------------------------
(* Time parsing.  A time-of-day text is the record of what the pattern     *)
(* /(\d{1,2}):(\d{2}) ?(?:([ap])m?)?/i captures: matched, the hour digits, *)
(* the minute digits and the marker letter ("" when absent).               *)

ToUpperCase(c) == IF c = "a" THEN "A" ELSE IF c = "p" THEN "P" ELSE c

TimeText(h, m, ap) == [matched |-> TRUE, h |-> h, m |-> m, ap |-> ap]
NoTimeText == [matched |-> FALSE, h |-> 0, m |-> 0, ap |-> ""]

parseTimeOfDay_pmAddsTwelve(timeString) ==
    IF ~timeString.matched
    THEN [ok |-> FALSE, totalMinutes |-> 0]
    ELSE LET hours == IF "P" = ToUpperCase(timeString.ap)
                      THEN timeString.h + 12 ELSE timeString.h
         IN [ok |-> TRUE,
             totalMinutes |-> TimeSpan_initialize(Num(0), Num(hours), Num(timeString.m))]

\* result: [ok, totalMinutes]; ok = FALSE is the thrown Error
parseTimeOfDay(timeString) ==
    IF ~timeString.matched
    THEN [ok |-> FALSE, totalMinutes |-> 0]
    ELSE LET hours == timeString.h
             minutes == timeString.m
             hours2 == IF timeString.ap # ""
                       THEN IF "P" = ToUpperCase(timeString.ap)
                            THEN (IF 12 # hours THEN hours + 12 ELSE hours)
                            ELSE (IF 12 = hours THEN 0 ELSE hours)
                       ELSE hours
         IN [ok |-> TRUE,
             totalMinutes |-> TimeSpan_initialize(Num(0), Num(hours2), Num(minutes))]

-----------------------------------------------------------------------------
(* Time-span parsing.  A time-span text is its sequence of characters; the *)
(* patterns /(\d+) ?d/i, /(\d+) ?h/i, /(\d+) ?m/i are matched on it as the  *)
(* regular-expression engine does: leftmost start, longest run of digits.  *)

Digits == <<"0", "1", "2", "3", "4", "5", "6", "7", "8", "9">>
IsDigit(c) == \E n \in DOMAIN Digits : Digits[n] = c
DigitValue(c) == (CHOOSE n \in DOMAIN Digits : Digits[n] = c) - 1

\* Number("30")
RECURSIVE NumberOf(_)
NumberOf(chars) ==
    IF chars = <<>> THEN 0
    ELSE NumberOf(SubSeq(chars, 1, Len(chars) - 1)) * 10 + DigitValue(chars[Len(chars)])

\* the letters the i flag lets a unit letter match
UnitLetters == [d |-> {"d", "D"}, h |-> {"h", "H"}, m |-> {"m", "M"}]

\* the last position of the run of digits that starts at i
RunEnd(text, i) ==
    CHOOSE j \in i..Len(text) :
        /\ \A k \in i..j : IsDigit(text[k])
        /\ (j = Len(text) \/ ~IsDigit(text[j + 1]))

\* (\d+) ?u matches starting at position i
MatchesAt(text, i, u) ==
    /\ IsDigit(text[i])
    /\ LET j == RunEnd(text, i)
       IN  \/ (j + 1 <= Len(text) /\ text[j + 1] \in UnitLetters[u])
           \/ (j + 2 <= Len(text) /\ text[j + 1] = " " /\ text[j + 2] \in UnitLetters[u])

\* text.match(/(\d+) ?u/i): Number(match[1]), or undefined (null) without a match
MatchUnit(text, u) ==
    LET starts == {i \in 1..Len(text) : MatchesAt(text, i, u)}
    IN  IF starts = {} THEN Undefined
        ELSE LET i == CHOOSE x \in starts : \A y \in starts : x <= y
             IN  Num(NumberOf(SubSeq(text, i, RunEnd(text, i))))

parseTimeSpan_minutesOnly(timeSpanString) ==
    LET m == MatchUnit(timeSpanString, "m")
    IN  TimeSpan_initialize(Num(0), Num(0), Num(IF m.def THEN m.v ELSE 0))

\* result: the totalMinutes of the TimeSpan returned
parseTimeSpan(timeSpanString) ==
    LET d == MatchUnit(timeSpanString, "d")
        h == MatchUnit(timeSpanString, "h")
        m == MatchUnit(timeSpanString, "m")
        days == IF d.def THEN d.v ELSE 0
        hours == IF h.def THEN h.v ELSE 0
        minutes == IF m.def THEN m.v ELSE 0
    IN  TimeSpan_initialize(Num(days), Num(hours), Num(minutes))

-----------------------------------------------------------------------------
(* The time-of-day pattern /(\d{1,2}):(\d{2}) ?(?:([ap])m?)?/i on the        *)
(* characters of a text.                                                   *)

\* the pattern matched from position i on: its captures, or NoTimeText
TimeMatchAt(text, i) ==
    LET digit(k) == k <= Len(text) /\ IsDigit(text[k])
        colon(k) == k <= Len(text) /\ text[k] = ":"
        two == digit(i) /\ digit(i + 1) /\ colon(i + 2) /\ digit(i + 3) /\ digit(i + 4)
        one == digit(i) /\ colon(i + 1) /\ digit(i + 2) /\ digit(i + 3)
        c == IF two THEN i + 2 ELSE i + 1
        p == IF c + 3 <= Len(text) /\ text[c + 3] = " " THEN c + 4 ELSE c + 3
        ap == IF p <= Len(text) /\ text[p] \in {"a", "A", "p", "P"} THEN text[p] ELSE ""
    IN  IF two \/ one
        THEN TimeText(NumberOf(SubSeq(text, i, c - 1)), NumberOf(SubSeq(text, c + 1, c + 2)), ap)
        ELSE NoTimeText

\* timeString.match(...): leftmost match
TimeMatch(text) ==
    LET starts == {i \in 1..Len(text) : TimeMatchAt(text, i).matched}
    IN  IF starts = {} THEN NoTimeText
        ELSE TimeMatchAt(text, CHOOSE x \in starts : \A y \in starts : x <= y)

-----------------------------------------------------------------------------
(* Tone parsing.  A tone text is the record of what the pattern            *)
(* /(-?\d+)[, ]+(-?\d+)[, ]+(-?\d+)[, ]+(\d+)/ captures; a tone list text  *)
(* is the sequence of its bracketed groups, left to right.                 *)

ToneText(r, g, b, gray) == [matched |-> TRUE, r |-> r, g |-> g, b |-> b, gray |-> gray]
NoToneText == [matched |-> FALSE, r |-> 0, g |-> 0, b |-> 0, gray |-> 0]

\* The pattern on the characters of a text.  A number must be followed by a
\* separator and a run of separators by a number, so every run is taken whole.

\* the last position of the integer that starts at i (-?\d+ when signed, \d+
\* otherwise), 0 when none starts there
IntegerEnd(text, i, signed) ==
    IF i > Len(text) THEN 0
    ELSE IF IsDigit(text[i]) THEN RunEnd(text, i)
    ELSE IF signed /\ text[i] = "-" /\ i + 1 <= Len(text) /\ IsDigit(text[i + 1])
         THEN RunEnd(text, i + 1)
    ELSE 0

\* Number.parseInt(text[i..j])
IntegerAt(text, i, j) ==
    IF text[i] = "-" THEN 0 - NumberOf(SubSeq(text, i + 1, j)) ELSE NumberOf(SubSeq(text, i, j))

\* the last position of the run [, ]+ that starts at i, 0 when none starts there
SeparatorsEnd(text, i) ==
    IF i > Len(text) \/ text[i] \notin {",", " "} THEN 0
    ELSE CHOOSE j \in i..Len(text) :
             /\ \A k \in i..j : text[k] \in {",", " "}
             /\ (j = Len(text) \/ text[j + 1] \notin {",", " "})

\* the pattern matched from position a1 on: its captures, or NoToneText
ToneMatchAt(text, a1) ==
    LET e1 == IntegerEnd(text, a1, TRUE)
        s1 == IF e1 = 0 THEN 0 ELSE SeparatorsEnd(text, e1 + 1)
        e2 == IF s1 = 0 THEN 0 ELSE IntegerEnd(text, s1 + 1, TRUE)
        s2 == IF e2 = 0 THEN 0 ELSE SeparatorsEnd(text, e2 + 1)
        e3 == IF s2 = 0 THEN 0 ELSE IntegerEnd(text, s2 + 1, TRUE)
        s3 == IF e3 = 0 THEN 0 ELSE SeparatorsEnd(text, e3 + 1)
        e4 == IF s3 = 0 THEN 0 ELSE IntegerEnd(text, s3 + 1, FALSE)
    IN  IF e4 = 0 THEN NoToneText
        ELSE ToneText(IntegerAt(text, a1, e1), IntegerAt(text, s1 + 1, e2),
                      IntegerAt(text, s2 + 1, e3), IntegerAt(text, s3 + 1, e4))

\* toneString.match(/(-?\d+)[, ]+(-?\d+)[, ]+(-?\d+)[, ]+(\d+)/): leftmost match
ToneMatch(text) ==
    LET starts == {i \in 1..Len(text) : ToneMatchAt(text, i).matched}
    IN  IF starts = {} THEN NoToneText
        ELSE ToneMatchAt(text, CHOOSE x \in starts : \A y \in starts : x <= y)

parseTone_blueGreen(toneString) ==
    IF ~toneString.matched
    THEN [ok |-> FALSE, tone |-> <<>>]
    ELSE [ok |-> TRUE,
          tone |-> <<toneString.r, toneString.b, toneString.g, toneString.gray>>]

\* result: [ok, tone]; ok = FALSE is the thrown Error
parseTone(toneString) ==
    IF ~toneString.matched
    THEN [ok |-> FALSE, tone |-> <<>>]
    ELSE [ok |-> TRUE,
          tone |-> <<OrZero(Num(toneString.r)), OrZero(Num(toneString.g)),
                     OrZero(Num(toneString.b)), OrZero(Num(toneString.gray))>>]

parseToneList(toneListString) ==
    [i \in 1..Len(toneListString) |-> parseTone(toneListString[i]).tone]

-----------------------------------------------------------------------------
(* Lighting keywords.  String.prototype.toLowerCase on the keywords used.  *)

LowerCase ==
    [Outside |-> "outside", OUTSIDE |-> "outside",
     Bright |-> "bright", Fire |-> "fire", Blue |-> "blue",
     Dark |-> "dark", DARK |-> "dark", VeryDark |-> "verydark",
     Black |-> "black", Gold |-> "gold", Swamp |-> "swamp", Cave |-> "cave"]

toLowerCase(k) == IF k \in DOMAIN LowerCase THEN LowerCase[k] ELSE k

Str(k) == [def |-> TRUE, v |-> k]

\* truthiness of a string that may be undefined or null
Truthy(x) == x.def /\ x.v # ""

-----------------------------------------------------------------------------
(* Parameter init: McKathlin.DayNight.Param as built at load *)

LIGHTING_COLLECTION_LENGTH == 12

\* Param.LightingPresets: filled slot by slot, blank keywords skipped, a later
\* slot overwriting an earlier one of the same keyword
LightingPresets ==
    LET slots == Parameters.LightingPresets
        keyword(i) == toLowerCase(slots[i].Keyword)
        used == {i \in 1..LIGHTING_COLLECTION_LENGTH : keyword(i) # ""}
        last(k) == CHOOSE i \in used :
                       keyword(i) = k /\ \A j \in used : keyword(j) = k => j <= i
    IN  [k \in {keyword(i) : i \in used} |-> parseTone(slots[last(k)].Tone).tone]

Param ==
    [DaytimeSwitchID  |-> Parameters.DaytimeSwitch,
     NightSwitchID    |-> Parameters.NightSwitch,
     OutdoorLightingKeyword |-> toLowerCase(Parameters.OutdoorLightingKeyword),
     NewGameStartTime |-> parseTimeOfDay(Parameters.NewGameStartTime).totalMinutes,
     DawnStartTime    |-> parseTimeOfDay(Parameters.DawnStartTime).totalMinutes,
     DayStartTime     |-> parseTimeOfDay(Parameters.DayStartTime).totalMinutes,
     DuskStartTime    |-> parseTimeOfDay(Parameters.DuskStartTime).totalMinutes,
     NightStartTime   |-> parseTimeOfDay(Parameters.NightStartTime).totalMinutes,
     MinutesPerTonePhase |-> Parameters.MinutesPerTonePhase,
     DawnTonePhases   |-> parseToneList(Parameters.DawnTonePhases),
     DaylightTone     |-> parseTone(Parameters.DaylightTone).tone,
     DuskTonePhases   |-> parseToneList(Parameters.DuskTonePhases),
     NightTone        |-> parseTone(Parameters.NightTone).tone,
     DawnEndTime      |-> parseTimeOfDay(Parameters.DawnStartTime).totalMinutes
                          + Parameters.MinutesPerTonePhase * Len(Parameters.DawnTonePhases),
     DuskEndTime      |-> parseTimeOfDay(Parameters.DuskStartTime).totalMinutes
                          + Parameters.MinutesPerTonePhase * Len(Parameters.DuskTonePhases),
     LightingPresets  |-> LightingPresets,
     LIGHTING_COLLECTION_LENGTH |-> LIGHTING_COLLECTION_LENGTH]

\* the properties Parameter init assigns on McKathlin.DayNight.Param
ParamNames ==
    {"DaytimeSwitchID", "NightSwitchID", "OutdoorLightingKeyword",
     "NewGameStartTime", "DawnStartTime", "DayStartTime", "DuskStartTime",
     "NightStartTime", "MinutesPerTonePhase", "DawnTonePhases", "DaylightTone",
     "DuskTonePhases", "NightTone", "DawnEndTime", "DuskEndTime",
     "LightingPresets", "LIGHTING_COLLECTION_LENGTH"}

\* McKathlin.DayNight.Param.<name>
ParamGet(name) == IF name \in ParamNames THEN Num(Param[name]) ELSE Undefined

isDaytime(t) ==
    LET timeOfDay == Num(getMinutesOfDay(t))
    IN  /\ JsGe(timeOfDay, ParamGet("DayStartTimeAsMinutes"))
        /\ JsLt(timeOfDay, ParamGet("NightStartTimeAsMinutes"))

isNight(t) == ~isDaytime(t)

-----------------------------------------------------------------------------
(* The state a handler works on, and the events it records *)

State ==
    [totalMinutes |-> totalMinutes, switching |-> switching, switches |-> switches,
     variables |-> variables, log |-> <<>>, err |-> "none"]

Thrown(s) == s.err # "none"
Throw(s, e) == [s EXCEPT !.err = e]

\* ev: what happened; by: whose statement it was; id, minutes: its operands;
\* switching: DayNightCycle._switching at that moment; hookGuard: the value of
\* the flag the switch-protection hook read (FALSE when the hook did not run);
\* outcome: what became of a write.
Event(s, ev, by, id, minutes, hookGuard, outcome) ==
    [ev |-> ev, by |-> by, id |-> id, minutes |-> minutes,
     switching |-> s.switching, hookGuard |-> hookGuard, outcome |-> outcome]

Record(s, e) == [s EXCEPT !.log = Append(@, e)]

\* Statement sequencing: F runs on the state s leaves, unless s ended in a throw
\* (the exception propagates and the remaining statements are skipped).
Then(s, F(_)) == CHOOSE r \in {IF Thrown(x) THEN x ELSE F(x) : x \in {s}} : TRUE

-----------------------------------------------------------------------------
(* Host cells.  The host's own Game_Switches.setValue / Game_Variables.     *)
(* setValue store a value only under a valid positive id; value(id) of any  *)
(* other id reads false / 0.                                                *)

ValidSwitch(id) == id.def /\ id.v \in 1..NumSwitches
ValidVariable(id) == id.def /\ id.v \in 1..NumVariables

SwitchValue(sw, id) == IF ValidSwitch(id) THEN sw[id.v] ELSE FALSE
VariableValue(vs, id) == IF ValidVariable(id) THEN vs[id.v] ELSE 0

\* McKathlin.DayNight.Game_Switches_setValue: the host's original setValue
Game_Switches_setValue_original(s, switchId, value, by, hookGuard) ==
    IF ValidSwitch(switchId)
    THEN Record([s EXCEPT !.switches[switchId.v] = value],
                Event(s, "setSwitch", by, switchId, 0, hookGuard, "written"))
    ELSE Record(s, Event(s, "setSwitch", by, switchId, 0, hookGuard, "ignored"))

\* $gameVariables.setValue: not hooked by the plugin
Game_Variables_setValue(s, variableId, value, by) ==
    IF ValidVariable(variableId)
    THEN Record([s EXCEPT !.variables[variableId.v] = value],
                Event(s, "setVariable", by, variableId, value, FALSE, "written"))
    ELSE Record(s, Event(s, "setVariable", by, variableId, value, FALSE, "ignored"))

-----------------------------------------------------------------------------
(* Game Switches protection *)

\* Game_Switches.prototype.setValue as replaced by the plugin
Game_Switches_setValue(s, switchId, value, by) ==
    LET hookGuard == ToBoolean(GetMember(McKathlin_DayNight, "_switching"))
    IN  IF JsGt(switchId, Num(0)) /\ ~hookGuard
        THEN IF "Param" \notin McKathlin
             THEN \* McKathlin.Param is undefined: reading a property of it throws
                  Throw(Record(s, Event(s, "setSwitch", by, switchId, 0, hookGuard,
                                        "TypeError")), "TypeError")
             ELSE IF \/ switchId = ParamGet("DaytimeSwitchID")
                     \/ switchId = ParamGet("NightSwitchID")
                  THEN Throw(Record(s, Event(s, "setSwitch", by, switchId, 0, hookGuard,
                                             "PolicyViolation")), "PolicyViolation")
                  ELSE Game_Switches_setValue_original(s, switchId, value, by, hookGuard)
        ELSE Game_Switches_setValue_original(s, switchId, value, by, hookGuard)

-----------------------------------------------------------------------------
(* Day-Night timekeeping *)

\* What the map/rendering collaborator does when notified: nothing, or a
\* write of a switch.
NoReaction == [write |-> FALSE, id |-> 0, value |-> FALSE]
Reactions == {NoReaction} \cup {[write |-> TRUE, id |-> i, value |-> TRUE] : i \in 1..NumSwitches}

\* $gameMap.onTimeChanged()
onTimeChanged(s, reaction) ==
    LET n == Record(s, Event(s, "notify", "clock", Undefined, s.totalMinutes,
                             FALSE, "none"))
    IN  IF reaction.write
        THEN Game_Switches_setValue(n, Num(reaction.id), reaction.value, "collaborator")
        ELSE n

\* Update all time-based variables and switches.
updateTime(s) ==
    LET isDay == isDaytime(s.totalMinutes)
        L673(a) == Game_Switches_setValue(a, ParamGet("DaytimeSwitch"), isDay, "sync")
        L674(a) == Game_Switches_setValue(a, ParamGet("NightSwitch"), ~isDay, "sync")
        L676(a) == Game_Variables_setValue(a, ParamGet("DaysPassedVariable"),
                                           getDays(a.totalMinutes), "sync")
        L677(a) == Game_Variables_setValue(a, ParamGet("CurrentHourVariable"),
                                           getHours(a.totalMinutes), "sync")
        L678(a) == Game_Variables_setValue(a, ParamGet("CurrentMinuteVariable"),
                                           getMinutes(a.totalMinutes), "sync")
        Done(a) == Record(a, Event(a, "sync", "sync", Undefined, a.totalMinutes,
                                   FALSE, "none"))
    IN  Then(Then(Then(Then(Then(Then(s, L673), L674), L676), L677), L678), Done)

\* changeTimeTo that leaves the guard set when it returns
changeTimeTo_guardLeftSet(s, minutes, reaction) ==
    LET L661(a) == [a EXCEPT !.switching = TRUE]
        L662(a) == Record([a EXCEPT !.totalMinutes = minutes],
                          Event(a, "set", "clock", Undefined, minutes, FALSE, "none"))
        L664(a) == updateTime(a)
        L667(a) == onTimeChanged(a, reaction)
    IN  Then(Then(Then(Then(s, L661), L662), L664), L667)

\* changeTimeTo with the notification sent before the sync step
changeTimeTo_notifyBeforeSync(s, minutes, reaction) ==
    LET L661(a) == [a EXCEPT !.switching = TRUE]
        L662(a) == Record([a EXCEPT !.totalMinutes = minutes],
                          Event(a, "set", "clock", Undefined, minutes, FALSE, "none"))
        L664(a) == updateTime(a)
        L665(a) == [a EXCEPT !.switching = FALSE]
        L667(a) == onTimeChanged(a, reaction)
    IN  Then(Then(Then(Then(Then(s, L661), L662), L667), L664), L665)

\* changeTimeTo with the guard cleared only after the notification
changeTimeTo_clearAfterNotify(s, minutes, reaction) ==
    LET L661(a) == [a EXCEPT !.switching = TRUE]
        L662(a) == Record([a EXCEPT !.totalMinutes = minutes],
                          Event(a, "set", "clock", Undefined, minutes, FALSE, "none"))
        L664(a) == updateTime(a)
        L665(a) == [a EXCEPT !.switching = FALSE]
        L667(a) == onTimeChanged(a, reaction)
    IN  Then(Then(Then(Then(Then(s, L661), L662), L664), L667), L665)

changeTimeTo(s, minutes, reaction) ==
    LET L661(a) == [a EXCEPT !.switching = TRUE]
        L662(a) == Record([a EXCEPT !.totalMinutes = minutes],
                          Event(a, "set", "clock", Undefined, minutes, FALSE, "none"))
        L664(a) == updateTime(a)
        L665(a) == [a EXCEPT !.switching = FALSE]
        L667(a) == onTimeChanged(a, reaction)
    IN  Then(Then(Then(Then(Then(s, L661), L662), L664), L665), L667)

\* the totalMinutes property of McKathlin.DayNightCycle
totalMinutes_get(s) == s.totalMinutes
totalMinutes_set(s, value, reaction) == changeTimeTo(s, value, reaction)

\* add that overwrites the clock with the duration instead of adding it
add_assigns(s, timeSpan, reaction) ==
    totalMinutes_set(s, timeSpan, reaction)

\* The mutators DayNightCycle inherits from TimeSpan, run on the clock
add(s, timeSpan, reaction) ==
    totalMinutes_set(s, totalMinutes_get(s) + timeSpan, reaction)

\* addMinutes that subtracts
addMinutes_subtracts(s, minutes, reaction) ==
    totalMinutes_set(s, totalMinutes_get(s) - minutes, reaction)

addMinutes(s, minutes, reaction) ==
    totalMinutes_set(s, totalMinutes_get(s) + minutes, reaction)

setForwardTo_noRoll(s, timeOfDay, reaction) ==
    LET theirMinutesToday == getMinutesOfDay(timeOfDay)
        myMinutesToday == getMinutesOfDay(totalMinutes_get(s))
        difference == theirMinutesToday - myMinutesToday
    IN  totalMinutes_set(s, totalMinutes_get(s) + difference, reaction)

setForwardTo(s, timeOfDay, reaction) ==
    LET theirMinutesToday == getMinutesOfDay(timeOfDay)
        myMinutesToday == getMinutesOfDay(totalMinutes_get(s))
        difference == theirMinutesToday - myMinutesToday
        difference2 == IF difference < 0 THEN difference + MINUTES_PER_DAY ELSE difference
    IN  totalMinutes_set(s, totalMinutes_get(s) + difference2, reaction)

setTotalMinutes(s, minutes, reaction) == totalMinutes_set(s, minutes, reaction)

\* Returns a new TimeSpan: the value handed back is its totalMinutes
plus(s, timeSpan) ==
    LET minuteSum == totalMinutes_get(s) + timeSpan
    IN  [state |-> s, value |-> Num(TimeSpan_initialize(Num(0), Num(0), Num(minuteSum)))]

\* new McKathlin.timeSpan(...): McKathlin has no property timeSpan
minus(s, timeSpan) ==
    LET minuteDifference == totalMinutes_get(s) - timeSpan
    IN  IF "timeSpan" \in McKathlin
        THEN [state |-> s,
              value |-> Num(TimeSpan_initialize(Num(0), Num(0), Num(minuteDifference)))]
        ELSE [state |-> Throw(s, "TypeError"), value |-> Undefined]

reset(s, reaction1, reaction2) ==
    LET L686(a) == setTotalMinutes(a, 0, reaction1)
        L687(a) == setForwardTo(a,
                       TimeSpan_initialize(Undefined, Undefined,
                                           ParamGet("NewGameStartTimeAsMinutes")),
                       reaction2)
    IN  Then(Then(s, L686), L687)

-----------------------------------------------------------------------------
(* Lighting application and tone-finding *)

\* a query returns: the state it leaves and the value it hands back
Returned(s, value) == [state |-> s, value |-> value]

\* Math.floor((time - start) / minutesPerPhase); NaN (undefined) when an
\* operand is undefined
PhaseIndex_roundedUp(time, start, minutesPerPhase) ==
    IF start.def /\ minutesPerPhase.def /\ minutesPerPhase.v > 0
    THEN Num(FloorDiv(time.v - start.v, minutesPerPhase.v) + 1)
    ELSE Undefined

PhaseIndex(time, start, minutesPerPhase) ==
    IF start.def /\ minutesPerPhase.def /\ minutesPerPhase.v > 0
    THEN Num(FloorDiv(time.v - start.v, minutesPerPhase.v))
    ELSE Undefined

\* phases[phase]: undefined outside the array
PhaseTone(phases, phase) ==
    IF phases.def /\ phase.def /\ phase.v + 1 \in DOMAIN phases.v
    THEN Num(phases.v[phase.v + 1])
    ELSE Undefined

getOutsideTone(s) ==
    LET time == Num(getMinutesOfDay(totalMinutes_get(s)))
    IN  IF JsLt(time, ParamGet("DawnStartTimeAsMinutes"))
        THEN ParamGet("NightTone")
        ELSE IF JsLt(time, ParamGet("DawnEndTimeAsMinutes"))
        THEN PhaseTone(ParamGet("DawnTonePhases"),
                       PhaseIndex(time, ParamGet("DawnStartTimeAsMinutes"),
                                  ParamGet("MinutesPerTonePhase")))
        ELSE IF JsLt(time, ParamGet("DuskStartTimeAsMinutes"))
        THEN ParamGet("DaylightTone")
        ELSE IF JsLt(time, ParamGet("DuskEndTimeAsMinutes"))
        THEN PhaseTone(ParamGet("DuskTonePhases"),
                       PhaseIndex(time, ParamGet("DuskStartTimeAsMinutes"),
                                  ParamGet("MinutesPerTonePhase")))
        ELSE ParamGet("NightTone")

\* the branch of getOutsideTone that returns
OutsideBranch(s) ==
    LET time == Num(getMinutesOfDay(totalMinutes_get(s)))
    IN  IF JsLt(time, ParamGet("DawnStartTimeAsMinutes")) THEN "beforeDawn"
        ELSE IF JsLt(time, ParamGet("DawnEndTimeAsMinutes")) THEN "dawn"
        ELSE IF JsLt(time, ParamGet("DuskStartTimeAsMinutes")) THEN "daytime"
        ELSE IF JsLt(time, ParamGet("DuskEndTimeAsMinutes")) THEN "dusk"
        ELSE "afterDusk"

\* if (!tone) tone = McKathlin.DayNight.DEFAULT_TONE
OrDefaultTone(tone) ==
    IF tone.def THEN tone ELSE GetMember(McKathlin_DayNight, "DEFAULT_TONE")

getToneByKeyword_normalizing(s, keyword) ==
    Returned([s EXCEPT !.totalMinutes = getMinutesOfDay(@)],
             OrDefaultTone(IF Truthy(keyword)
                              /\ toLowerCase(keyword.v) = ParamGet("OutdoorLightingKeyword").v
                           THEN getOutsideTone(s) ELSE Undefined))

getToneByKeyword(s, keyword) ==
    IF Truthy(keyword)
    THEN LET keyword2 == toLowerCase(keyword.v)
         IN  IF Str(keyword2) = ParamGet("OutdoorLightingKeyword")
             THEN Returned(s, OrDefaultTone(getOutsideTone(s)))
             ELSE LET presets == ParamGet("SimpleLightingPresets")
                  IN  IF ~presets.def
                      THEN \* indexing undefined
                           Returned(Throw(s, "TypeError"), Undefined)
                      ELSE \* preset ? preset.tone : null, and the entries the
                           \* loader stores are bare tone arrays, without .tone
                           Returned(s, OrDefaultTone(Undefined))
    ELSE Returned(s, OrDefaultTone(Undefined))

-----------------------------------------------------------------------------
(* New game *)

\* The host's own DataManager.setupNewGame: fresh game objects
DataManager_setupNewGame_original(s) ==
    Record([s EXCEPT !.totalMinutes = 0,
                     !.switches = [i \in 1..NumSwitches |-> FALSE],
                     !.variables = [i \in 1..NumVariables |-> 0]],
           Event(s, "hostSetup", "host", Undefined, 0, FALSE, "none"))

DataManager_setupNewGame(s, reaction1, reaction2) ==
    LET L753(a) == DataManager_setupNewGame_original(a)
        L754(a) == IF "reset" \notin McKathlin_DayNight
                   THEN \* McKathlin.DayNight.reset is undefined: calling it throws
                        Throw(a, "TypeError")
                   ELSE reset(a, reaction1, reaction2)
    IN  Then(Then(s, L753), L754)

-----------------------------------------------------------------------------
(* Party Step *)

\* The host's own Game_Party.increaseSteps: it counts the step
Game_Party_increaseSteps_original(s) ==
    Record(s, Event(s, "hostStep", "host", Undefined, s.totalMinutes, FALSE, "none"))

\* increaseSteps that advances the clock on every map that names a step length,
\* a length of 0 included
Game_Party_increaseSteps_zeroAdvances(s, gameMap, reaction) ==
    LET L783(a) == Game_Party_increaseSteps_original(a)
        L784(a) == IF gameMap.present /\ JsGe(gameMap.minutesPerStep, Num(0))
                   THEN addMinutes(a, gameMap.minutesPerStep.v, reaction)
                   ELSE a
    IN  Then(Then(s, L783), L784)

\* Game_Party.prototype.increaseSteps as replaced by the plugin; gameMap is
\* $gameMap as the map collaborator has set it up
Game_Party_increaseSteps(s, gameMap, reaction) ==
    LET L783(a) == Game_Party_increaseSteps_original(a)
        L784(a) == IF gameMap.present /\ JsGt(gameMap.minutesPerStep, Num(0))
                   THEN addMinutes(a, gameMap.minutesPerStep.v, reaction)
                   ELSE a
    IN  Then(Then(s, L783), L784)

-----------------------------------------------------------------------------
(* Inputs *)

\* one preset slot: 'Lighting Preset i: Keyword', 'Lighting Preset i: Tone'
Preset(keyword, tone) == [Keyword |-> keyword, Tone |-> tone]

\* the plugin's parameters; all but the three arguments at their defaults
PluginParameters(daytimeSwitch, nightSwitch, newGameStartTime) ==
    [DaytimeSwitch |-> daytimeSwitch, NightSwitch |-> nightSwitch,
     OutdoorLightingKeyword |-> "Outside",
     NewGameStartTime |-> newGameStartTime,
     DawnStartTime |-> TimeText(6, 0, "A"),
     DayStartTime |-> TimeText(6, 0, "A"),
     DuskStartTime |-> TimeText(6, 0, "P"),
     NightStartTime |-> TimeText(8, 0, "P"),
     MinutesPerTonePhase |-> 30,
     DawnTonePhases |-> <<ToneText(0 - 68, 0 - 68, 0 - 14, 41), ToneText(0 - 68, 0 - 68, 0 - 27, 14),
                          ToneText(0 - 54, 0 - 54, 0 - 27, 0), ToneText(0 - 27, 0 - 27, 0 - 14, 0)>>,
     DaylightTone |-> ToneText(0, 0, 0, 0),
     DuskTonePhases |-> <<ToneText(27, 0 - 14, 0 - 14, 0), ToneText(54, 0 - 27, 0 - 27, 0),
                          ToneText(41, 0 - 41, 0 - 27, 14), ToneText(0 - 14, 0 - 54, 0 - 14, 41)>>,
     NightTone |-> ToneText(0 - 68, 0 - 68, 0, 68),
     LightingPresets |->
         <<Preset("Bright", ToneText(0, 0, 0, 0)),
           Preset("Fire", ToneText(0 - 16, 0 - 70, 0 - 100, 100)),
           Preset("Blue", ToneText(0 - 68, 0 - 68, 0, 68)),
           Preset("Dark", ToneText(0 - 68, 0 - 68, 0 - 68, 0)),
           Preset("VeryDark", ToneText(0 - 100, 0 - 100, 0 - 100, 100)),
           Preset("Black", ToneText(0 - 100, 0 - 100, 0 - 100, 100)),
           Preset("Gold", ToneText(34, 0, 0 - 90, 100)),
           Preset("Swamp", ToneText(0 - 34, 0, 0 - 68, 100)),
           Preset("", ToneText(0, 0, 0, 0)), Preset("", ToneText(0, 0, 0, 0)),
           Preset("", ToneText(0, 0, 0, 0)), Preset("", ToneText(0, 0, 0, 0))>>]

ParameterChoices ==
    {PluginParameters(0, 0, TimeText(8, 0, "A")),
     PluginParameters(1, 2, TimeText(8, 0, "A")),
     PluginParameters(2, 1, TimeText(12, 0, "a"))}

SetToArgs == {0 - 60, 0, 480, 1200, 1410, 2010}
Durations == {0 - 60, 0, 90, 1440}
TimesOfDay == {0, 480, 1380, 1440 + 510}

\* lighting keywords a map or event hands to getToneByKeyword: none, blank, the
\* outdoor keyword, a preset keyword (each in several letter cases), an unknown one
Keywords ==
    {Undefined, Str(""), Str("Outside"), Str("OUTSIDE"),
     Str("dark"), Str("DARK"), Str("Cave")}

\* $gameMap at a party step: not yet created, or a map whose minutesPerStep the
\* map collaborator left unset, set to 0, or set to a positive step length
StepLengths == {Undefined, Num(0), Num(30)}
GameMaps ==
    {[present |-> FALSE, minutesPerStep |-> Undefined]}
        \cup {[present |-> TRUE, minutesPerStep |-> m] : m \in StepLengths}

-----------------------------------------------------------------------------
(* The machine *)

\* the most recent call was not a query
NoAnswer == [fn |-> "none"]

Init ==
    /\ Parameters \in ParameterChoices
    /\ totalMinutes = TimeSpan_initialize(Undefined, Undefined, Undefined)
    /\ switching = FALSE
    /\ switches = [i \in 1..NumSwitches |-> FALSE]
    /\ variables = [i \in 1..NumVariables |-> 0]
    /\ log = <<>>
    /\ err = "none"
    /\ lastOp = [kind |-> "init", arg |-> 0]
    /\ answer = NoAnswer

\* A call returns: its result becomes the state.
Return(result, kind, arg) ==
    \E r \in {result} :
    /\ r.totalMinutes \in TotalMinutesRange
    /\ totalMinutes' = r.totalMinutes
    /\ switching' = r.switching
    /\ switches' = r.switches
    /\ variables' = r.variables
    /\ log' = r.log
    /\ err' = r.err
    /\ lastOp' = [kind |-> kind, arg |-> arg]
    /\ answer' = NoAnswer
    /\ UNCHANGED Parameters

CallSetTotalMinutes ==
    \E m \in SetToArgs, r \in Reactions :
        Return(setTotalMinutes(State, m, r), "setTotalMinutes", m)

CallAdd ==
    \E d \in Durations, r \in Reactions :
        Return(add(State, d, r), "add", d)

CallAddMinutes ==
    \E d \in Durations, r \in Reactions :
        Return(addMinutes(State, d, r), "addMinutes", d)

CallSetForwardTo ==
    \E t \in TimesOfDay, r \in Reactions :
        Return(setForwardTo(State, t, r), "setForwardTo", t)

CallReset ==
    \E r1 \in Reactions, r2 \in Reactions :
        Return(reset(State, r1, r2), "reset", 0)

CallSetupNewGame ==
    \E r1 \in Reactions, r2 \in Reactions :
        Return(DataManager_setupNewGame(State, r1, r2), "setupNewGame", 0)

\* a caller other than the clock (an event command, another plugin) sets a switch
CallSetValue ==
    \E id \in 0..NumSwitches, v \in BOOLEAN :
        Return(Game_Switches_setValue(State, Num(id), v, "external"), "setValue", id)

\* the map applies a lighting preset: it asks the clock for the tone of a keyword
CallGetToneByKeyword ==
    \E k \in Keywords :
    \E r \in {getToneByKeyword(State, k)} :
    /\ totalMinutes' = r.state.totalMinutes
    /\ switching' = r.state.switching
    /\ switches' = r.state.switches
    /\ variables' = r.state.variables
    /\ log' = r.state.log
    /\ err' = r.state.err
    /\ lastOp' = [kind |-> "getToneByKeyword", arg |-> 0]
    /\ answer' = [fn |-> "getToneByKeyword", keyword |-> k, value |-> r.value]
    /\ UNCHANGED Parameters

\* the party takes a step; lastOp.arg is the map's step length, none read as 0
CallIncreaseSteps ==
    \E gameMap \in GameMaps, r \in Reactions :
        Return(Game_Party_increaseSteps(State, gameMap, r), "increaseSteps",
               OrZero(gameMap.minutesPerStep))

Next ==
    \/ CallSetTotalMinutes
    \/ CallAdd
    \/ CallAddMinutes
    \/ CallSetForwardTo
    \/ CallReset
    \/ CallSetupNewGame
    \/ CallSetValue
    \/ CallGetToneByKeyword
    \/ CallIncreaseSteps

Spec == Init /\ [][Next]_vars

-----------------------------------------------------------------------------
(* The TimeSpan methods on a clock that holds any instant: the instant is   *)
(* drawn at the start and one method is applied to it.                      *)

ForwardTargets == {0, 1, 480, 1319, 1320, 1380, 1439, MINUTES_PER_DAY + 480}

\* the default parameters, and the same with 'Dawn Tone Phases' left empty
TimeSpanParameters ==
    {PluginParameters(1, 2, TimeText(8, 0, "A")),
     [PluginParameters(1, 2, TimeText(8, 0, "A")) EXCEPT !.DawnTonePhases = <<>>]}

InitTimeSpan ==
    /\ Parameters \in TimeSpanParameters
    /\ totalMinutes \in TotalMinutesRange
    /\ switching = FALSE
    /\ switches = [i \in 1..NumSwitches |-> FALSE]
    /\ variables = [i \in 1..NumVariables |-> 0]
    /\ log = <<>>
    /\ err = "none"
    /\ lastOp = [kind |-> "init", arg |-> 0]
    /\ answer = NoAnswer

TimeSpanSetForwardTo ==
    /\ lastOp.kind = "init"
    /\ \E t \in ForwardTargets :
           Return(setForwardTo(State, t, NoReaction), "setForwardTo", t)

\* every getter of the TimeSpan prototype, read off the same instant
TimeSpanInspect ==
    /\ lastOp.kind = "init"
    /\ answer' = [fn |-> "inspect",
                  getMinutes |-> getMinutes(totalMinutes),
                  getHours |-> getHours(totalMinutes),
                  getDays |-> getDays(totalMinutes),
                  getTotalHours |-> getTotalHours(totalMinutes),
                  getTotalMinutes |-> getTotalMinutes(totalMinutes),
                  getMinutesOfDay |-> getMinutesOfDay(totalMinutes),
                  isDaytime |-> isDaytime(totalMinutes),
                  isNight |-> isNight(totalMinutes)]
    /\ lastOp' = [kind |-> "inspect", arg |-> totalMinutes]
    /\ UNCHANGED <<Parameters, totalMinutes, switching, switches, variables, log, err>>

TimeSpanGetOutsideTone ==
    /\ lastOp.kind = "init"
    /\ answer' = [fn |-> "getOutsideTone", value |-> getOutsideTone(State),
                  branch |-> OutsideBranch(State)]
    /\ lastOp' = [kind |-> "getOutsideTone", arg |-> totalMinutes]
    /\ UNCHANGED <<Parameters, totalMinutes, switching, switches, variables, log, err>>

\* a query on the clock returns: the state it leaves, the value it hands back
Answer(r, kind, arg, x) ==
    /\ totalMinutes' = r.state.totalMinutes
    /\ switching' = r.state.switching
    /\ switches' = r.state.switches
    /\ variables' = r.state.variables
    /\ log' = r.state.log
    /\ err' = r.state.err
    /\ lastOp' = [kind |-> kind, arg |-> arg]
    /\ answer' = [fn |-> kind, x |-> x, value |-> r.value]
    /\ UNCHANGED Parameters

TimeSpanPlus ==
    /\ lastOp.kind = "init"
    /\ \E x \in Durations : \E r \in {plus(State, x)} : Answer(r, "plus", totalMinutes, x)

TimeSpanMinus ==
    /\ lastOp.kind = "init"
    /\ \E x \in Durations : \E r \in {minus(State, x)} : Answer(r, "minus", totalMinutes, x)

NextTimeSpan ==
    \/ TimeSpanSetForwardTo
    \/ TimeSpanInspect
    \/ TimeSpanGetOutsideTone
    \/ TimeSpanPlus
    \/ TimeSpanMinus

SpecTimeSpan == InitTimeSpan /\ [][NextTimeSpan]_vars

-----------------------------------------------------------------------------
(* The parsers, applied to the texts a parameter or a plugin command holds *)

\* what one or two digits (the hour) and two digits (the minute) can spell
HourDigits == 0..99
MinuteDigits == 0..99
Markers == {"", "a", "A", "p", "P"}

TimeTexts ==
    {TimeText(h, m, ap) : h \in HourDigits, m \in MinuteDigits, ap \in Markers}
        \cup {NoTimeText}

CallParseTimeOfDay ==
    /\ lastOp.kind = "init"
    /\ \E text \in TimeTexts :
           answer' = [fn |-> "parseTimeOfDay", text |-> text,
                      result |-> parseTimeOfDay(text)]
    /\ lastOp' = [kind |-> "parseTimeOfDay", arg |-> 0]
    /\ UNCHANGED <<Parameters, totalMinutes, switching, switches, variables, log, err>>

\* Time-span texts: written from a list of <N><unit> tokens of different units,
\* in any order, or any short text over TextAlphabet.
Amounts == {1, 2, 30}
DecimalText(n) ==
    IF n < 10 THEN <<Digits[n + 1]>>
    ELSE <<Digits[(n \div 10) + 1], Digits[(n % 10) + 1]>>

UnitOf(letter) == CHOOSE u \in DOMAIN UnitLetters : letter \in UnitLetters[u]

Tokens == [n : Amounts, space : BOOLEAN, letter : UNION {UnitLetters[u] : u \in DOMAIN UnitLetters}]

TokenLists(tokens) ==
    {toks \in UNION {[1..k -> tokens] : k \in 0..3} :
        \A i, j \in DOMAIN toks : i # j => UnitOf(toks[i].letter) # UnitOf(toks[j].letter)}

TokenText(tok) ==
    DecimalText(tok.n) \o (IF tok.space THEN <<" ">> ELSE <<>>) \o <<tok.letter>>

RECURSIVE Render(_, _)
Render(toks, sep) ==
    IF toks = <<>> THEN <<>>
    ELSE IF Len(toks) = 1 THEN TokenText(toks[1])
    ELSE TokenText(toks[1]) \o sep \o Render(Tail(toks), sep)

\* every text of up to maxLen characters of alphabet
TextsOver(alphabet, maxLen) == UNION {[1..k -> alphabet] : k \in 0..maxLen}

TextAlphabet == {"1", "2", "d", "M", " ", "x"}

TimeSpanInputs(tokens, maxLen) ==
    {[tokens |-> toks, text |-> Render(toks, sep)] :
        toks \in TokenLists(tokens), sep \in {<<>>, <<" ">>}}
    \cup {[tokens |-> <<>>, text |-> x] : x \in TextsOver(TextAlphabet, maxLen)}

CallParseTimeSpan ==
    /\ lastOp.kind = "init"
    /\ \E in \in TimeSpanInputs(Tokens, MaxTextLen) :
           answer' = [fn |-> "parseTimeSpan", tokens |-> in.tokens, text |-> in.text,
                      result |-> parseTimeSpan(in.text)]
    /\ lastOp' = [kind |-> "parseTimeSpan", arg |-> 0]
    /\ UNCHANGED <<Parameters, totalMinutes, switching, switches, variables, log, err>>

\* Tone texts: up to four integers written between brackets, separated by
\* commas and spaces.
ToneNumbers == {0 - 68, 0 - 14, 0, 5, 41}
SignedText(n) == IF n < 0 THEN <<"-">> \o DecimalText(0 - n) ELSE DecimalText(n)

RECURSIVE Join(_, _)
Join(numbers, sep) ==
    IF numbers = <<>> THEN <<>>
    ELSE IF Len(numbers) = 1 THEN SignedText(numbers[1])
    ELSE SignedText(numbers[1]) \o sep \o Join(Tail(numbers), sep)

ToneInputs(numbers) ==
    {[numbers |-> ns, text |-> <<"(">> \o Join(ns, sep) \o <<")">>] :
        ns \in UNION {[1..k -> numbers] : k \in 0..4},
        sep \in {<<",">>, <<" ">>, <<",", " ">>}}

CallParseTone ==
    /\ lastOp.kind = "init"
    /\ \E in \in ToneInputs(ToneNumbers) :
           answer' = [fn |-> "parseTone", numbers |-> in.numbers, text |-> in.text,
                      result |-> parseTone(ToneMatch(in.text))]
    /\ lastOp' = [kind |-> "parseTone", arg |-> 0]
    /\ UNCHANGED <<Parameters, totalMinutes, switching, switches, variables, log, err>>

NextParse ==
    \/ CallParseTimeOfDay
    \/ CallParseTimeSpan
    \/ CallParseTone

SpecParse == Init /\ [][NextParse]_vars

-----------------------------------------------------------------------------
(* Loading.  Parameter init parses the parameter texts as the plugin file  *)
(* is run; an Error thrown there ends the file, and nothing of the clock   *)
(* exists.  Parameters.Texts keeps what two of the parameters spell.       *)

TimeAlphabet == {"1", ":", " ", "p"}
TimeCharTexts(maxLen) ==
    TextsOver(TimeAlphabet, maxLen)
        \cup {<<"1", "2", ":", "0", "0", " ", "A", "M">>, <<"7", ":", "0", "5", "P", "M">>}

GoodTimeText == <<"8", ":", "0", "0", " ", "A", "M">>
GoodToneText == [numbers |-> <<0 - 68, 0 - 68, 0, 68>>,
                 text |-> <<"(", "-", "6", "8", ",", " ", "-", "6", "8", ",", " ",
                            "0", ",", " ", "6", "8", ")">>]

\* the parameters with 'New Game Start Time' spelled time and 'Night Tone' tone
ParametersSpelled(time, tone) ==
    [PluginParameters(1, 2, TimeMatch(time)) EXCEPT !.NightTone = ToneMatch(tone.text)]
        @@ [Texts |-> [NewGameStartTime |-> time, NightTone |-> tone]]

LoadChoices(times, tones) ==
    {ParametersSpelled(t, GoodToneText) : t \in times}
        \cup {ParametersSpelled(GoodTimeText, x) : x \in tones}

InitLoad ==
    /\ Parameters \in LoadChoices(TimeCharTexts(MaxTimeTextLen), ToneInputs(ToneNumbers))
    /\ totalMinutes = TimeSpan_initialize(Undefined, Undefined, Undefined)
    /\ switching = FALSE
    /\ switches = [i \in 1..NumSwitches |-> FALSE]
    /\ variables = [i \in 1..NumVariables |-> 0]
    /\ log = <<>>
    /\ err = "none"
    /\ lastOp = [kind |-> "init", arg |-> 0]
    /\ answer = NoAnswer

LoadOk_timesOnly ==
    \A name \in {"NewGameStartTime", "DawnStartTime", "DayStartTime", "DuskStartTime",
                   "NightStartTime"} : parseTimeOfDay(Parameters[name]).ok

\* no parse of Parameter init throws
LoadOk ==
    /\ \A name \in {"NewGameStartTime", "DawnStartTime", "DayStartTime", "DuskStartTime",
                      "NightStartTime"} : parseTimeOfDay(Parameters[name]).ok
    /\ \A name \in {"DawnTonePhases", "DuskTonePhases"} :
           \A i \in DOMAIN Parameters[name] : parseTone(Parameters[name][i]).ok
    /\ \A name \in {"DaylightTone", "NightTone"} : parseTone(Parameters[name]).ok
    /\ \A i \in 1..LIGHTING_COLLECTION_LENGTH :
           toLowerCase(Parameters.LightingPresets[i].Keyword) # ""
               => parseTone(Parameters.LightingPresets[i].Tone).ok

Load ==
    /\ lastOp.kind = "init"
    /\ err' = IF LoadOk THEN "none" ELSE "ParseError"
    /\ lastOp' = [kind |-> "load", arg |-> 0]
    /\ UNCHANGED <<Parameters, totalMinutes, switching, switches, variables, log, answer>>

\* the file ran to its end: the clock and the hooks exist
Loaded == lastOp.kind = "load" /\ err = "none"

\* the first call the host makes once the plugin is loaded
FirstCall ==
    /\ Loaded
    /\ (CallAddMinutes \/ CallReset \/ CallGetToneByKeyword)

NextLoad ==
    \/ Load
    \/ FirstCall

SpecLoad == InitLoad /\ [][NextLoad]_vars

-----------------------------------------------------------------------------
(* Properties *)

ClockOps == {"setTotalMinutes", "add", "addMinutes", "reset"}
AdvanceOps == {"add", "addMinutes"}

\* the events of a call that are the plugin's own statements
OwnEvents(l) == SelectSeq(l, LAMBDA e : e.by # "collaborator")
Kinds(l) == [i \in 1..Len(l) |-> l[i].ev]

\* one change of the clock: the slot write, the five writes of the sync step,
\* the end of the sync step, the notification
SetSyncNotify ==
    <<"set", "setSwitch", "setSwitch", "setVariable", "setVariable", "setVariable",
      "sync", "notify">>

\* the two reserved switches, when configured
IsReserved(id) ==
    /\ id.def
    /\ id.v > 0
    /\ id.v \in {Param.DaytimeSwitchID, Param.NightSwitchID}

BothSwitchesConfigured ==
    /\ Param.DaytimeSwitchID > 0
    /\ Param.NightSwitchID > 0
    /\ Param.DaytimeSwitchID # Param.NightSwitchID

\* the cells the spec calls the daytime flag, the night flag and the
\* days / hour / minute slots
DaytimeCell == SwitchValue(switches, ParamGet("DaytimeSwitchID"))
NightCell == SwitchValue(switches, ParamGet("NightSwitchID"))
DaysCell == VariableValue(variables, ParamGet("DaysPassedVariable"))
HourCell == VariableValue(variables, ParamGet("CurrentHourVariable"))
MinuteCell == VariableValue(variables, ParamGet("CurrentMinuteVariable"))

\* C1: when setTo(instant) has returned, its own steps were, in this order and
\* with nothing left over: the slot is replaced by the given value, the sync
\* step makes its five writes and finishes, then the collaborator is notified
\* (and is shown the new value); the slot holds the given value.
C1_SetToOrder ==
    lastOp.kind = "setTotalMinutes" =>
        /\ Kinds(OwnEvents(log)) = SetSyncNotify
        /\ OwnEvents(log)[1].minutes = lastOp.arg
        /\ OwnEvents(log)[8].minutes = lastOp.arg
        /\ totalMinutes = lastOp.arg

C1_Witness ==
    /\ lastOp.kind = "setTotalMinutes"
    /\ lastOp.arg = 1200
    /\ totalMinutes = 1200
    /\ Len(log) = 8
    /\ log[7].ev = "sync"
    /\ log[8].ev = "notify"
    /\ err = "none"

\* C2 (as claimed): after a setTo, advance or reset that completed, the daytime
\* flag equals isDaytime() of the instant, the night flag its negation, and the
\* days, hour and minute slots equal getDays(), getHours() and getMinutes().
C2_SlotsAgree ==
    (lastOp.kind \in ClockOps /\ err = "none" /\ BothSwitchesConfigured
        /\ totalMinutes >= 0) =>
        /\ DaytimeCell = isDaytime(totalMinutes)
        /\ NightCell = ~isDaytime(totalMinutes)
        /\ DaysCell = getDays(totalMinutes)
        /\ HourCell = getHours(totalMinutes)
        /\ MinuteCell = getMinutes(totalMinutes)

\* C3 (as claimed): once a sync step has run, exactly one of the daytime cell
\* and the night cell is true.
C3_Complements ==
    (BothSwitchesConfigured /\ totalMinutes >= 0
        /\ \E i \in 1..Len(log) : log[i].ev = "sync") =>
        DaytimeCell # NightCell

\* C4 (as claimed): at every switch write of the sync step the flag the
\* protection hook consults is set, and the write is not rejected.
C4_GuardSetDuringSync ==
    \A i \in 1..Len(log) :
        (BothSwitchesConfigured /\ totalMinutes >= 0
            /\ log[i].by = "sync" /\ log[i].ev = "setSwitch") =>
            /\ log[i].hookGuard
            /\ log[i].outcome # "PolicyViolation"

\* C5 (as claimed): a write of a reserved switch by another caller while the
\* guard flag is unset ends in a PolicyViolation and stores nothing.
C5_ExternalWriteRejected ==
    (lastOp.kind = "setValue" /\ IsReserved(Num(lastOp.arg)) /\ ~switching) =>
        /\ err = "PolicyViolation"
        /\ log[Len(log)].outcome = "PolicyViolation"

C7_Advance ==
    [][lastOp'.kind \in AdvanceOps =>
          /\ totalMinutes' = totalMinutes + lastOp'.arg
          /\ Kinds(OwnEvents(log')) = SetSyncNotify
          /\ OwnEvents(log')[1].minutes = totalMinutes + lastOp'.arg]_vars

C7_Witness ==
    /\ lastOp.kind = "add"
    /\ lastOp.arg = 90
    /\ totalMinutes = 1500
    /\ Kinds(OwnEvents(log)) = SetSyncNotify
    /\ err = "none"

\* C8: an advance by a non-negative duration never decreases getTotalMinutes().
C8_Monotone ==
    [][(lastOp'.kind \in AdvanceOps /\ lastOp'.arg >= 0) =>
          getTotalMinutes(totalMinutes') >= getTotalMinutes(totalMinutes)]_vars

C8_Witness ==
    /\ lastOp.kind = "addMinutes"
    /\ lastOp.arg = 1440
    /\ totalMinutes = 1920
    /\ err = "none"

\* C9 (as claimed): after a reset() that completed, getTotalMinutes() is the
\* minute of day of the configured New Game Start Time and getDays() is 0.
C9_ResetToStart ==
    (lastOp.kind = "reset" /\ err = "none") =>
        /\ getTotalMinutes(totalMinutes) = getMinutesOfDay(Param.NewGameStartTime)
        /\ getDays(totalMinutes) = 0

\* C10 (as claimed): new-game setup runs the host's setup, then resets the
\* clock, and ends with the clock at the New Game Start Time on day 0.
C10_NewGame ==
    lastOp.kind = "setupNewGame" =>
        /\ err = "none"
        /\ log[1].ev = "hostSetup"
        /\ \E i \in 2..Len(log) : log[i].ev = "notify"
        /\ getTotalMinutes(totalMinutes) = getMinutesOfDay(Param.NewGameStartTime)
        /\ getDays(totalMinutes) = 0

\* C11: on a clock at c >= 0, setForwardTo adds the least non-negative number of
\* minutes (0..1439) that lands on the target's minute-of-day: the clock does not
\* go back, a target equal to the current minute-of-day leaves it unchanged,
\* 22:00 of day 0 goes to 8:00 of day 1 and to 23:00 of day 0.
C11_SetForwardTo ==
    [][(lastOp'.kind = "setForwardTo" /\ totalMinutes >= 0) =>
         /\ totalMinutes' - totalMinutes \in 0..(MINUTES_PER_DAY - 1)
         /\ totalMinutes' >= totalMinutes
         /\ totalMinutes' % MINUTES_PER_DAY = lastOp'.arg % MINUTES_PER_DAY
         /\ (lastOp'.arg % MINUTES_PER_DAY = totalMinutes % MINUTES_PER_DAY
               => totalMinutes' = totalMinutes)
         /\ (totalMinutes = 22 * 60 /\ lastOp'.arg = 8 * 60
               => totalMinutes' = MINUTES_PER_DAY + 8 * 60)
         /\ (totalMinutes = 22 * 60 /\ lastOp'.arg = 23 * 60
               => totalMinutes' = 23 * 60)]_vars

\* a roll across midnight: the clock stands at 0:01 of day 1 after a target of 0:01
C11_Witness ==
    lastOp.kind = "setForwardTo" /\ lastOp.arg = 1 /\ totalMinutes = MINUTES_PER_DAY + 1

\* C12: isDaytime() is true exactly when the minute-of-day lies in
\* [dayStart, nightStart): with 6:00 and 20:00 configured it is true at 6:00 and
\* at 19:59, false at 20:00 and at 5:59.
C12_DaytimeInterval ==
    (lastOp.kind = "inspect" /\ totalMinutes >= 0) =>
        (answer.isDaytime <=>
            /\ Param.DayStartTime <= totalMinutes % MINUTES_PER_DAY
            /\ totalMinutes % MINUTES_PER_DAY < Param.NightStartTime)

\* C13: for every minute count m >= 0, getHours()*60 + getMinutes() equals
\* getMinutesOfDay(), and getDays()*1440 + getMinutesOfDay() equals
\* getTotalMinutes().
C13_Decomposition ==
    (lastOp.kind = "inspect" /\ totalMinutes >= 0) =>
        /\ answer.getHours * 60 + answer.getMinutes = answer.getMinutesOfDay
        /\ answer.getDays * 1440 + answer.getMinutesOfDay = answer.getTotalMinutes

\* day 1, 1:05
C13_Witness ==
    /\ lastOp.kind = "inspect" /\ totalMinutes = 1505
    /\ answer.getDays = 1 /\ answer.getHours = 1 /\ answer.getMinutes = 5

\* C14: whatever value the clock holds, getMinutes() is in 0..59, getHours() in
\* 0..23, getMinutesOfDay() in 0..1439 and getDays() is not negative.
C14_DerivedRanges ==
    /\ getMinutes(totalMinutes) \in 0..59
    /\ getHours(totalMinutes) \in 0..23
    /\ getMinutesOfDay(totalMinutes) \in 0..1439
    /\ getDays(totalMinutes) >= 0

\* the keyword, in any letter case, is the outdoor keyword / a preset's keyword
IsOutside(k) == Truthy(k) /\ toLowerCase(k.v) = Param.OutdoorLightingKeyword
IsPreset(k) == Truthy(k) /\ toLowerCase(k.v) \in DOMAIN Param.LightingPresets

\* the tone of the configured day at minute-of-day t
OutsideToneAt(t) ==
    IF t < Param.DawnStartTime THEN Param.NightTone
    ELSE IF t < Param.DawnEndTime
    THEN Param.DawnTonePhases[(t - Param.DawnStartTime) \div Param.MinutesPerTonePhase + 1]
    ELSE IF t < Param.DuskStartTime THEN Param.DaylightTone
    ELSE IF t < Param.DuskEndTime
    THEN Param.DuskTonePhases[(t - Param.DuskStartTime) \div Param.MinutesPerTonePhase + 1]
    ELSE Param.NightTone

\* C15: for the outdoor keyword the tone follows the minute-of-day t: the night
\* tone before dawnStart and from duskEnd on, the dawn phase
\* floor((t - dawnStart) / minutesPerPhase) in [dawnStart, dawnEnd), the daylight
\* tone in [dawnEnd, duskStart), the dusk phase likewise in [duskStart, duskEnd).
C15_OutsideTone ==
    (lastOp.kind = "getToneByKeyword" /\ IsOutside(answer.keyword) /\ totalMinutes >= 0) =>
        /\ err = "none"
        /\ answer.value = Num(OutsideToneAt(totalMinutes % MINUTES_PER_DAY))

\* C16: for a keyword that is empty or unset, or neither the outdoor keyword nor
\* a preset's, the call succeeds and returns the default tone.
C16_DefaultTone ==
    (lastOp.kind = "getToneByKeyword"
        /\ ~IsOutside(answer.keyword) /\ ~IsPreset(answer.keyword)) =>
        /\ err = "none"
        /\ answer.value.def

\* C17: for the keyword of a non-blank preset slot, in any letter case, the call
\* returns that preset's tone, whatever the instant.
C17_PresetTone ==
    (lastOp.kind = "getToneByKeyword" /\ IsPreset(answer.keyword)) =>
        /\ err = "none"
        /\ answer.value = Num(Param.LightingPresets[toLowerCase(answer.keyword.v)])

C19_NoRuntimeFailure ==
    (/\ lastOp.kind \in ClockOps \cup {"getToneByKeyword"}
     /\ \A i \in DOMAIN log : log[i].by # "collaborator") =>
        err = "none"

\* the hour of the day an hour and a marker letter spell
HourOfDay(h, ap) ==
    IF ap \in {"p", "P"} THEN (IF h = 12 THEN 12 ELSE h + 12)
    ELSE IF ap \in {"a", "A"} THEN (IF h = 12 THEN 0 ELSE h)
    ELSE h

\* C20: a text H:MM or HH:MM with an optional AM/PM marker parses to
\* hour*60 + minute, where 12 AM is hour 0, 12 PM is hour 12, any other PM hour
\* has 12 added and an AM or unmarked hour is taken as written: "12:00 AM" is 0,
\* "12:00 PM" is 720, "7:05 AM" is 425, "7:05 PM" is 1145.
C20_ParseTimeOfDay ==
    (answer.fn = "parseTimeOfDay" /\ answer.text.matched) =>
        /\ answer.result.ok
        /\ answer.result.totalMinutes =
               HourOfDay(answer.text.h, answer.text.ap) * 60 + answer.text.m
        /\ (answer.text = TimeText(12, 0, "A") => answer.result.totalMinutes = 0)
        /\ (answer.text = TimeText(12, 0, "P") => answer.result.totalMinutes = 720)
        /\ (answer.text = TimeText(7, 5, "A") => answer.result.totalMinutes = 425)
        /\ (answer.text = TimeText(7, 5, "P") => answer.result.totalMinutes = 1145)

\* "12:00 pm" has been parsed to noon
C20_Witness ==
    /\ answer.fn = "parseTimeOfDay" /\ answer.text = TimeText(12, 0, "p")
    /\ answer.result.ok /\ answer.result.totalMinutes = 720

\* C21: every time of day parseTimeOfDay returns has day component 0: its total
\* minutes lie in 0..1439, whatever hour digits, minute digits and marker the
\* text holds.
C21_TimeOfDayRange ==
    (answer.fn = "parseTimeOfDay" /\ answer.result.ok) =>
        /\ answer.result.totalMinutes \in 0..(MINUTES_PER_DAY - 1)
        /\ getDays(answer.result.totalMinutes) = 0

\* the N of the token of unit u, 0 when the list has none
AmountOf(toks, u) ==
    IF \E i \in DOMAIN toks : UnitOf(toks[i].letter) = u
    THEN toks[CHOOSE i \in DOMAIN toks : UnitOf(toks[i].letter) = u].n
    ELSE 0

HasToken(text) ==
    /\ \E i \in DOMAIN text : IsDigit(text[i])
    /\ \E i \in DOMAIN text : \E u \in DOMAIN UnitLetters : text[i] \in UnitLetters[u]

\* C22: parseTimeSpan returns days*1440 + hours*60 + minutes, where each of the
\* tokens <N>d, <N>h, <N>m may be present or absent, in any order, an absent one
\* counting as 0: "2h 30m" is 150, "1d" is 1440, a text without a token is 0.
C22_ParseTimeSpan ==
    answer.fn = "parseTimeSpan" =>
        /\ (answer.tokens # <<>> =>
               answer.result = AmountOf(answer.tokens, "d") * 1440
                               + AmountOf(answer.tokens, "h") * 60
                               + AmountOf(answer.tokens, "m"))
        /\ (~HasToken(answer.text) => answer.result = 0)
        /\ (answer.text = <<"2", "h", " ", "3", "0", "m">> => answer.result = 150)
        /\ (answer.text = <<"1", "d">> => answer.result = 1440)

\* "30 M1d2h": minutes first, upper case, no separator
C22_Witness ==
    /\ answer.fn = "parseTimeSpan"
    /\ answer.text = <<"3", "0", " ", "M", "1", "d", "2", "h">>
    /\ answer.result = 1440 + 120 + 30

\* C23 as stated: a text holding four comma/space-separated integers parses to
\* exactly those four integers, in order, as (red, green, blue, gray); a sign on
\* the fourth integer is not rejected.
C23_ParseToneAnySign ==
    (answer.fn = "parseTone" /\ Len(answer.numbers) = 4) =>
        /\ answer.result.ok
        /\ answer.result.tone = answer.numbers

\* C23, amended: a text holding four comma/space-separated integers of which the
\* fourth is written without a sign parses to exactly those four integers, in
\* order, "(-68, -68, -14, 41)" to (-68, -68, -14, 41); with a sign on the fourth
\* integer the parse fails.
C23_ParseTone ==
    (answer.fn = "parseTone" /\ Len(answer.numbers) = 4) =>
        /\ (answer.numbers[4] >= 0 =>
               answer.result.ok /\ answer.result.tone = answer.numbers)
        /\ (answer.numbers[4] < 0 => ~answer.result.ok)
        /\ (answer.text = <<"(", "-", "6", "8", ",", " ", "-", "6", "8", ",", " ",
                            "-", "1", "4", ",", " ", "4", "1", ")">>
               => answer.result.tone = <<0 - 68, 0 - 68, 0 - 14, 41>>)

\* "(-68, -68, -14, 41)" has been parsed
C23_Witness ==
    /\ answer.fn = "parseTone"
    /\ answer.text = <<"(", "-", "6", "8", ",", " ", "-", "6", "8", ",", " ",
                       "-", "1", "4", ",", " ", "4", "1", ")">>
    /\ answer.result.ok /\ answer.result.tone = <<0 - 68, 0 - 68, 0 - 14, 41>>

\* the text holds H:MM: a digit, a colon, two digits
ContainsHMM(text) ==
    \E i \in 1..Len(text) :
        /\ i + 3 <= Len(text)
        /\ IsDigit(text[i]) /\ text[i + 1] = ":" /\ IsDigit(text[i + 2]) /\ IsDigit(text[i + 3])

IndexWithin(t, start, phases) ==
    LET phase == PhaseIndex(Num(t), Num(start), ParamGet("MinutesPerTonePhase"))
    IN  /\ phase.def /\ phase.v \in 0..(Len(phases) - 1)
        /\ PhaseTone(Num(phases), phase).def

C26_PlusMinus ==
    (lastOp.kind \in {"plus", "minus"}) =>
        /\ err = "none"
        /\ answer.value = Num(IF lastOp.kind = "plus" THEN lastOp.arg + answer.x
                                                     ELSE lastOp.arg - answer.x)
        /\ totalMinutes = lastOp.arg

\* C27: a party step first runs the host's own step handling; on a map whose
\* minutesPerStep is greater than 0 it then advances the clock by exactly that
\* many minutes with one slot write, one sync step and one notification; on no
\* map, or a map with no or zero minutesPerStep, it leaves the clock, the
\* switches and the variables as they were and neither syncs nor notifies.
C27_PartyStep ==
    [][lastOp'.kind = "increaseSteps" =>
          /\ log'[1].ev = "hostStep"
          /\ log'[1].minutes = totalMinutes
          /\ IF lastOp'.arg > 0
             THEN /\ totalMinutes' = totalMinutes + lastOp'.arg
                  /\ Kinds(OwnEvents(log')) = <<"hostStep">> \o SetSyncNotify
                  /\ OwnEvents(log')[2].minutes = totalMinutes + lastOp'.arg
             ELSE /\ UNCHANGED <<totalMinutes, switches, variables>>
                  /\ Kinds(log') = <<"hostStep">>]_vars

C27_Witness ==
    /\ lastOp.kind = "increaseSteps"
    /\ lastOp.arg = 30
    /\ totalMinutes = 510
    /\ Kinds(OwnEvents(log)) = <<"hostStep">> \o SetSyncNotify
    /\ err = "none"

C29_OneChangePerCall ==
    /\ lastOp.kind \in {"add", "addMinutes", "setForwardTo", "setTotalMinutes"} =>
           Kinds(OwnEvents(log)) = SetSyncNotify
    /\ (lastOp.kind = "reset" /\ err = "none") =>
           /\ Kinds(OwnEvents(log)) = SetSyncNotify \o SetSyncNotify
           /\ OwnEvents(log)[8].minutes = 0
           /\ OwnEvents(log)[16].minutes = getMinutesOfDay(Param.NewGameStartTime)

\* C30 (as claimed): every switch write that reaches the hook with an id other
\* than the two reserved ones, ids <= 0 included, is handed to the host's
\* original setValue (which stores it under a valid id and ignores it
\* otherwise) and raises no error, whatever the guard flag is.
C30_OthersForwarded ==
    \A i \in 1..Len(log) :
        (log[i].ev = "setSwitch" /\ ~IsReserved(log[i].id)) =>
            /\ log[i].outcome = IF ValidSwitch(log[i].id) THEN "written" ELSE "ignored"
            /\ (i = Len(log) => err = "none")

====
